---- MODULE Spec2Model ----
(***************************************************************************)
(* check-commit: the policy-driven commit subject classifier of            *)
(* haproxytech/github-actions (check-commit/check.go).                     *)
(*                                                                         *)
(* A subject is a sequence of bytes (naturals 0..255), as []byte in the    *)
(* source.  CheckSubjectList runs CheckSubject on every subject of a list; *)
(* CheckSubject is modelled step by step: the ASCII scan, one step per     *)
(* iteration of the TagOrder loop, the test for unprocessed tags and       *)
(* checkSubjectText.                                                       *)
(***************************************************************************)
EXTENDS Integers, Sequences, FiniteSets, TLC

(***************************************************************************)
(* Byte strings used by the policies and by the subjects.                  *)
(***************************************************************************)
BUG == <<66, 85, 71>>
BUILD == <<66, 85, 73, 76, 68>>
CLEANUP == <<67, 76, 69, 65, 78, 85, 80>>
DOC == <<68, 79, 67>>
LICENSE == <<76, 73, 67, 69, 78, 83, 69>>
OPTIM == <<79, 80, 84, 73, 77>>
RELEASE == <<82, 69, 76, 69, 65, 83, 69>>
REORG == <<82, 69, 79, 82, 71>>
TEST == <<84, 69, 83, 84>>
REVERT == <<82, 69, 86, 69, 82, 84>>
MINOR == <<77, 73, 78, 79, 82>>
MEDIUM == <<77, 69, 68, 73, 85, 77>>
MAJOR == <<77, 65, 74, 79, 82>>
CRITICAL == <<67, 82, 73, 84, 73, 67, 65, 76>>
SPEC == <<83, 80, 69, 67>>
\* tags of the tests that no policy declares: "WRONG", "CI"
WRONG == <<87, 82, 79, 78, 71>>
CI == <<67, 73>>
\* "bug" and "aaa" (lower case), ": ", "/", "'", " ", "\t", "x", "y"
lcbug == <<98, 117, 103>>
lcaaa == <<97, 97, 97>>
ColonSpace == <<58, 32>>
Slash == <<47>>
Quote == <<39>>
Space == <<32>>
Tab == <<9>>
lcx == <<120>>
lcy == <<121>>
\* the two bytes of U+00E9 in UTF-8
EAcute == <<195, 169>>

EmptyString == <<>>

(***************************************************************************)
(* Program constants.                                                      *)
(***************************************************************************)
MINSUBJECTPARTS == 3
MAXSUBJECTPARTS == 15
MINSUBJECTLEN == 15
MAXSUBJECTLEN == 100
\* unicode.MaxASCII
MaxASCII == 127

(***************************************************************************)
(* Library functions, over byte sequences.                                 *)
(***************************************************************************)
Range(s) == {s[i] : i \in DOMAIN s}

\* Go's s[lo:hi], with 0-based half-open indices
Slice(s, lo, hi) == SubSeq(s, lo + 1, hi)

\* [A-Z]
IsUpper(b) == b >= 65 /\ b <= 90

\* unicode.IsSpace on an ASCII byte: '\t', '\n', '\v', '\f', '\r', ' '
IsSpace(b) == b \in {9, 10, 11, 12, 13, 32}

\* the number of bytes of the longest run of [A-Z] that starts at 0-based offset i
RECURSIVE UpperRun(_, _)
UpperRun(s, i) ==
    IF i + 1 <= Len(s) /\ IsUpper(s[i + 1]) THEN 1 + UpperRun(s, i + 1) ELSE 0

\* whether s holds ": " at 0-based offset i
ColonSpaceAt(s, i) == i + 2 <= Len(s) /\ s[i + 1] = 58 /\ s[i + 2] = 32

\* regexp `^(?P<match>(?P<tag>[A-Z]+)(\/(?P<severity>[A-Z]+))?: )`, FindSubmatchIndex:
\* <<>> when there is no match, else the 0-based index pairs of the whole match and
\* of the groups match, tag, /severity and severity (-1, -1 for a group that did not
\* take part).  [A-Z]+ is greedy and is followed by a byte outside [A-Z], so that no
\* shorter run can match; the optional group is tried first.
FindSubmatchIndex(s) ==
    LET t == UpperRun(s, 0)
        v == IF t + 1 <= Len(s) /\ s[t + 1] = 47 THEN UpperRun(s, t + 1) ELSE 0
    IN  IF t = 0 THEN <<>>
        ELSE IF v > 0 /\ ColonSpaceAt(s, t + 1 + v)
             THEN <<0, t + v + 3, 0, t + v + 3, 0, t, t, t + 1 + v, t + 1, t + 1 + v>>
        ELSE IF ColonSpaceAt(s, t)
             THEN <<0, t + 2, 0, t + 2, 0, t, -1, -1, -1, -1>>
        ELSE <<>>

\* Regexp.Expand of the template "$tag" (group 2) on src with the match indices
ExpandTag(src, submatch) ==
    IF submatch[5] < 0 THEN EmptyString ELSE Slice(src, submatch[5], submatch[6])

\* Regexp.Expand of the template "$severity" (group 4)
ExpandSeverity(src, submatch) ==
    IF submatch[9] < 0 THEN EmptyString ELSE Slice(src, submatch[9], submatch[10])

\* strings.Fields: the maximal runs of non-space bytes, in order.  A field starts at
\* a non-space byte that is the first byte or follows a space, and runs up to the
\* byte before the next space; the k-th field is the one with k-1 starts before it.
FieldStarts(s) ==
    {i \in DOMAIN s : ~IsSpace(s[i]) /\ (i = 1 \/ IsSpace(s[i - 1]))}

FieldEnd(s, i) ==
    CHOOSE j \in i..Len(s) :
        /\ \A m \in i..j : ~IsSpace(s[m])
        /\ (j = Len(s) \/ IsSpace(s[j + 1]))

Fields(s) ==
    LET starts == FieldStarts(s)
    IN  [k \in 1..Cardinality(starts) |->
            LET i == CHOOSE x \in starts : Cardinality({y \in starts : y < x}) = k - 1
            IN  SubSeq(s, i, FieldEnd(s, i))]

\* strings.Join
RECURSIVE Join(_, _)
Join(parts, sep) ==
    IF Len(parts) = 0 THEN <<>>
    ELSE IF Len(parts) = 1 THEN parts[1]
    ELSE parts[1] \o sep \o Join(Tail(parts), sep)

\* utf8.RuneCountInString: every byte that is not a UTF-8 continuation byte starts
\* a rune (exact on valid UTF-8; CheckSubject passes ASCII only)
RuneCountInString(s) == Cardinality({i \in DOMAIN s : ~(s[i] >= 128 /\ s[i] <= 191)})

\* strings.Trim(s, "'")
RECURSIVE TrimLeft(_, _)
TrimLeft(s, cut) ==
    IF Len(s) > 0 /\ s[1] = cut THEN TrimLeft(Tail(s), cut) ELSE s

RECURSIVE TrimRight(_, _)
TrimRight(s, cut) ==
    IF Len(s) > 0 /\ s[Len(s)] = cut THEN TrimRight(SubSeq(s, 1, Len(s) - 1), cut) ELSE s

Trim(s, cut) == TrimRight(TrimLeft(s, cut), cut)

(***************************************************************************)
(* Policies.                                                               *)
(***************************************************************************)
StandardScope == "HAProxy Standard Scope"
StandardPatch == "HAProxy Standard Patch"
FeatureCommit == "HAProxy Standard Feature Commit"
SpecialPatch == "SPECIAL patch"
DefaultHelpText == "Please refer to https://github.com/haproxy/haproxy/blob/master/CONTRIBUTING#L632"

StandardScopeValues == <<MINOR, MEDIUM, MAJOR, CRITICAL>>
StandardPatchValues ==
    <<BUG, BUILD, CLEANUP, DOC, LICENSE, OPTIM, RELEASE, REORG, TEST, REVERT>>

\* the zero value of patchTypeT, which a map lookup of a missing key yields
ZeroPatchType == [Values |-> <<>>, Scope |-> ""]

\* the built-in policy
defaultConf ==
    [ HelpText    |-> DefaultHelpText,
      PatchScopes |-> [k \in {StandardScope} |-> StandardScopeValues],
      PatchTypes  |-> [k \in {StandardPatch, FeatureCommit} |->
                         IF k = StandardPatch
                         THEN [Values |-> StandardPatchValues, Scope |-> StandardScope]
                         ELSE [Values |-> StandardScopeValues, Scope |-> ""]],
      TagOrder    |-> << [PatchTypes |-> <<StandardPatch, FeatureCommit>>,
                          Optional |-> FALSE] >> ]

\* the policy of TestDifferentPolicy: an optional position before the default one
customConf ==
    [ HelpText    |-> DefaultHelpText,
      PatchScopes |-> [k \in {StandardScope} |-> StandardScopeValues],
      PatchTypes  |-> [k \in {SpecialPatch, StandardPatch, FeatureCommit} |->
                         IF k = SpecialPatch
                         THEN [Values |-> <<SPEC>>, Scope |-> ""]
                         ELSE IF k = StandardPatch
                         THEN [Values |-> StandardPatchValues, Scope |-> StandardScope]
                         ELSE [Values |-> StandardScopeValues, Scope |-> ""]],
      TagOrder    |-> << [PatchTypes |-> <<SpecialPatch>>, Optional |-> TRUE],
                         [PatchTypes |-> <<StandardPatch, FeatureCommit>>,
                          Optional |-> FALSE] >> ]

\* new(CommitPolicyConfig): no scopes, no types, no tag positions, no help text
emptyConf ==
    [ HelpText    |-> "",
      PatchScopes |-> [k \in {} |-> <<>>],
      PatchTypes  |-> [k \in {} |-> ZeroPatchType],
      TagOrder    |-> <<>> ]

\* c.PatchTypes[name] and c.PatchScopes[name]: the zero value for a missing key
PatchTypeOf(c, name) ==
    IF name \in DOMAIN c.PatchTypes THEN c.PatchTypes[name] ELSE ZeroPatchType

\* a missing scope is taken to be the standard one
PatchScopeOfMissingIsStandard(c, name) ==
    IF name \in DOMAIN c.PatchScopes THEN c.PatchScopes[name] ELSE StandardScopeValues

PatchScopeOf(c, name) ==
    IF name \in DOMAIN c.PatchScopes THEN c.PatchScopes[name] ELSE <<>>

(***************************************************************************)
(* Errors and log lines.  An error value holds the sentinel it wraps, the   *)
(* format string of its message and the arguments formatted into it.        *)
(***************************************************************************)
ErrSubjectMessageFormat == "invalid subject message format"
ErrTagScope == "invalid tag and or severity"
ErrSubjectList == "subjects contain errors"

NoError == [wraps |-> "", msg |-> "", searched |-> <<>>, text |-> <<>>, count |-> 0]

NonASCIIErrorWrapsFormat ==
    [wraps |-> ErrSubjectMessageFormat, msg |-> "non-ascii characters in commit subject",
     searched |-> <<>>, text |-> <<>>, count |-> 0]

NonASCIIError ==
    [wraps |-> ErrTagScope, msg |-> "non-ascii characters in commit subject",
     searched |-> <<>>, text |-> <<>>, count |-> 0]

\* the group names are joined with ", " into the message
InvalidTagErrorWrapsFormat(patchTypes) ==
    [wraps |-> ErrSubjectMessageFormat,
     msg |-> "invalid tag or no tag found, searched through",
     searched |-> patchTypes, text |-> <<>>, count |-> 0]

InvalidTagError(patchTypes) ==
    [wraps |-> ErrTagScope, msg |-> "invalid tag or no tag found, searched through",
     searched |-> patchTypes, text |-> <<>>, count |-> 0]

UnprocessedTagsError ==
    [wraps |-> ErrTagScope, msg |-> "detected unprocessed tags",
     searched |-> <<>>, text |-> <<>>, count |-> 0]

MalformattedError(subject) ==
    [wraps |-> ErrSubjectMessageFormat,
     msg |-> "malformatted subject string (trailing or double spaces?)",
     searched |-> <<>>, text |-> subject, count |-> 0]

WordCountError(subject, subjectPartsLen) ==
    [wraps |-> ErrSubjectMessageFormat, msg |-> "subject word count out of bounds",
     searched |-> <<>>, text |-> subject, count |-> subjectPartsLen]

LengthError(subject, subjectLen) ==
    [wraps |-> ErrSubjectMessageFormat, msg |-> "subject length out of bounds",
     searched |-> <<>>, text |-> subject, count |-> subjectLen]

LogLine(msg, args) == [msg |-> msg, args |-> args]

(***************************************************************************)
(* checkSubjectText                                                        *)
(***************************************************************************)
\* without the comparison with the re-joined fields
checkSubjectTextNoShape(subject) ==
    LET subjectLen == RuneCountInString(subject)
        subjectParts == Fields(subject)
        subjectPartsLen == Len(subjectParts)
    IN  IF subjectPartsLen < MINSUBJECTPARTS \/ subjectPartsLen > MAXSUBJECTPARTS
        THEN WordCountError(subject, subjectPartsLen)
        ELSE IF subjectLen < MINSUBJECTLEN \/ subjectLen > MAXSUBJECTLEN
        THEN LengthError(subject, subjectLen)
        ELSE NoError

\* with the length tested before the word count
checkSubjectTextLengthFirst(subject) ==
    LET subjectLen == RuneCountInString(subject)
        subjectParts == Fields(subject)
        subjectPartsLen == Len(subjectParts)
    IN  IF subject # Join(subjectParts, Space)
        THEN MalformattedError(subject)
        ELSE IF subjectLen < MINSUBJECTLEN \/ subjectLen > MAXSUBJECTLEN
        THEN LengthError(subject, subjectLen)
        ELSE IF subjectPartsLen < MINSUBJECTPARTS \/ subjectPartsLen > MAXSUBJECTPARTS
        THEN WordCountError(subject, subjectPartsLen)
        ELSE NoError

\* with the bounds excluded
checkSubjectTextStrictBounds(subject) ==
    LET subjectLen == RuneCountInString(subject)
        subjectParts == Fields(subject)
        subjectPartsLen == Len(subjectParts)
    IN  IF subject # Join(subjectParts, Space)
        THEN MalformattedError(subject)
        ELSE IF subjectPartsLen <= MINSUBJECTPARTS \/ subjectPartsLen >= MAXSUBJECTPARTS
        THEN WordCountError(subject, subjectPartsLen)
        ELSE IF subjectLen <= MINSUBJECTLEN \/ subjectLen >= MAXSUBJECTLEN
        THEN LengthError(subject, subjectLen)
        ELSE NoError

checkSubjectText(subject) ==
    LET subjectLen == RuneCountInString(subject)
        subjectParts == Fields(subject)
        subjectPartsLen == Len(subjectParts)
    IN  IF subject # Join(subjectParts, Space)
        THEN MalformattedError(subject)
        ELSE IF subjectPartsLen < MINSUBJECTPARTS \/ subjectPartsLen > MAXSUBJECTPARTS
        THEN WordCountError(subject, subjectPartsLen)
        ELSE IF subjectLen < MINSUBJECTLEN \/ subjectLen > MAXSUBJECTLEN
        THEN LengthError(subject, subjectLen)
        ELSE NoError

(***************************************************************************)
(* CheckPatchTypes                                                         *)
(***************************************************************************)
\* the inner loop: severity is one of the allowed scope values
SeverityAllowedFirstOnly(c, severity, scope) ==
    /\ Len(PatchScopeOf(c, scope)) > 0
    /\ severity = PatchScopeOf(c, scope)[1]

SeverityAllowed(c, severity, scope) ==
    \E j \in DOMAIN PatchScopeOf(c, scope) : severity = PatchScopeOf(c, scope)[j]

\* the loop over Values from index i on, with the value of tagScopeOK so far
RECURSIVE PatchTypesLoopNoScopeAccepts(_, _, _, _, _, _)
PatchTypesLoopNoScopeAccepts(c, tag, severity, patchTypeName, i, tagScopeOK) ==
    LET pt == PatchTypeOf(c, patchTypeName)
    IN  IF i > Len(pt.Values) THEN tagScopeOK
        ELSE IF tag # pt.Values[i]
        THEN PatchTypesLoopNoScopeAccepts(c, tag, severity, patchTypeName, i + 1,
                                          tagScopeOK)
        ELSE IF severity = EmptyString \/ pt.Scope = "" THEN TRUE
        ELSE PatchTypesLoopNoScopeAccepts(c, tag, severity, patchTypeName, i + 1,
                            tagScopeOK \/ SeverityAllowed(c, severity, pt.Scope))

RECURSIVE PatchTypesLoop(_, _, _, _, _, _)
PatchTypesLoop(c, tag, severity, patchTypeName, i, tagScopeOK) ==
    LET pt == PatchTypeOf(c, patchTypeName)
    IN  IF i > Len(pt.Values) THEN tagScopeOK
        ELSE IF tag # pt.Values[i]
        THEN PatchTypesLoop(c, tag, severity, patchTypeName, i + 1, tagScopeOK)
        ELSE IF severity = EmptyString THEN TRUE
        ELSE IF pt.Scope = "" THEN tagScopeOK
        ELSE PatchTypesLoop(c, tag, severity, patchTypeName, i + 1,
                            tagScopeOK \/ SeverityAllowed(c, severity, pt.Scope))

CheckPatchTypes(c, tag, severity, patchTypeName) ==
    PatchTypesLoop(c, tag, severity, patchTypeName, 1, FALSE)

\* the log line of CheckPatchTypes: printed when the first equal value is reached
\* with a severity and the group has no scope (an equal value reached with a scope
\* does not end the loop, so a second equal value is the first one again)
CheckPatchTypesLog(c, tag, severity, patchTypeName) ==
    LET pt == PatchTypeOf(c, patchTypeName)
    IN  IF (\E i \in DOMAIN pt.Values : tag = pt.Values[i])
           /\ severity # EmptyString /\ pt.Scope = ""
        THEN <<LogLine("unable to verify severity without definitions", <<severity>>)>>
        ELSE <<>>

\* breaks at the first group that holds the tag, accepting or not
RECURSIVE FirstAcceptingStopsAtTag(_, _, _, _, _)
FirstAcceptingStopsAtTag(c, tag, severity, patchTypes, k) ==
    IF k > Len(patchTypes) THEN 0
    ELSE IF CheckPatchTypes(c, tag, severity, patchTypes[k]) THEN k
    ELSE IF \E i \in DOMAIN PatchTypeOf(c, patchTypes[k]).Values :
                tag = PatchTypeOf(c, patchTypes[k]).Values[i]
    THEN 0
    ELSE FirstAcceptingStopsAtTag(c, tag, severity, patchTypes, k + 1)

\* the loop over tagAlternative.PatchTypes: the index of the first group that
\* accepts (the loop breaks there), 0 when none does
RECURSIVE FirstAccepting(_, _, _, _, _)
FirstAccepting(c, tag, severity, patchTypes, k) ==
    IF k > Len(patchTypes) THEN 0
    ELSE IF CheckPatchTypes(c, tag, severity, patchTypes[k]) THEN k
    ELSE FirstAccepting(c, tag, severity, patchTypes, k + 1)

\* the log lines of the calls of CheckPatchTypes made by that loop
RECURSIVE ScanLog(_, _, _, _, _)
ScanLog(c, tag, severity, patchTypes, k) ==
    IF k > Len(patchTypes) THEN <<>>
    ELSE CheckPatchTypesLog(c, tag, severity, patchTypes[k])
         \o (IF CheckPatchTypes(c, tag, severity, patchTypes[k]) THEN <<>>
             ELSE ScanLog(c, tag, severity, patchTypes, k + 1))

(***************************************************************************)
(* The inputs: subjects built from tag prefixes followed by a text.        *)
(***************************************************************************)
\* the largest number of tag prefixes put in front of a text
MaxTags == 3

\* s repeated n times
Rep(s, n) == [i \in 1..(n * Len(s)) |-> s[((i - 1) % Len(s)) + 1]]

\* a text of nw single-spaced words and len bytes: "xxx...x y y ... y"
Text(nw, len) == Rep(lcx, len - 2 * (nw - 1)) \o Rep(Space \o lcy, nw - 1)

\* "config: default implementation", the text of the tests
ConfigDefaultImplementation ==
    <<99, 111, 110, 102, 105, 103, 58, 32, 100, 101, 102, 97, 117, 108, 116, 32,
      105, 109, 112, 108, 101, 109, 101, 110, 116, 97, 116, 105, 111, 110>>

\* the texts at the bounds of checkSubjectText and one byte or one word beyond them
ShapedTexts ==
    { Text(nw, len) :
        <<nw, len>> \in { <<MINSUBJECTPARTS, MINSUBJECTLEN>>,
                          <<MAXSUBJECTPARTS, MAXSUBJECTLEN>>,
                          <<MINSUBJECTPARTS - 1, MINSUBJECTLEN>>,
                          <<MINSUBJECTPARTS, MINSUBJECTLEN - 1>>,
                          <<MINSUBJECTPARTS - 1, MINSUBJECTLEN - 1>>,
                          <<MAXSUBJECTPARTS + 1, MAXSUBJECTLEN>>,
                          <<MAXSUBJECTPARTS, MAXSUBJECTLEN + 1>>,
                          <<MAXSUBJECTPARTS + 1, MAXSUBJECTLEN + 1>> } }

\* texts with a leading, trailing or doubled space, with a tab, with a non-ASCII rune
DefectTexts ==
    { Space \o Text(MINSUBJECTPARTS, MINSUBJECTLEN),
      Text(MINSUBJECTPARTS, MINSUBJECTLEN) \o Space,
      Rep(lcx, MINSUBJECTLEN) \o Space \o Space \o lcy \o Space \o lcy,
      Rep(lcx, MINSUBJECTLEN) \o Tab \o lcy \o Space \o lcy,
      Rep(lcx, MINSUBJECTLEN) \o Space \o EAcute \o Space \o lcy,
      Rep(lcx, MINSUBJECTLEN) \o Space \o Space \o lcy }

Texts == ShapedTexts \cup DefectTexts \cup {ConfigDefaultImplementation}

\* the texts that checkSubjectText is expected to accept
GoodTexts ==
    { Text(MINSUBJECTPARTS, MINSUBJECTLEN), Text(MAXSUBJECTPARTS, MAXSUBJECTLEN),
      ConfigDefaultImplementation }

StandardTypes == Range(StandardPatchValues)
StandardSeverities == Range(StandardScopeValues)

\* "T: " and "T/S: " for every standard type T and severity S
StandardChunks ==
    { t \o ColonSpace : t \in StandardTypes \cup StandardSeverities }
    \cup { t \o Slash \o v \o ColonSpace : t \in StandardTypes, v \in StandardSeverities }

\* the prefixes of the tests: good ones, unknown tag, unknown severity, severity on
\* a bare severity, empty severity, lower case, garbage before and after the tag
FirstChunks ==
    { BUG \o Slash \o MEDIUM \o ColonSpace,
      BUG \o ColonSpace,
      MINOR \o ColonSpace,
      SPEC \o ColonSpace,
      WRONG \o ColonSpace,
      BUG \o Slash \o WRONG \o ColonSpace,
      MINOR \o Slash \o MAJOR \o ColonSpace,
      BUG \o Slash \o ColonSpace,
      lcbug \o ColonSpace,
      lcaaa \o BUG \o Slash \o MEDIUM \o ColonSpace,
      BUG \o Slash \o MEDIUM \o lcaaa \o ColonSpace }

SecondChunks ==
    { BUG \o Slash \o MEDIUM \o ColonSpace,
      MAJOR \o ColonSpace,
      CI \o ColonSpace,
      BUG \o Slash \o WRONG \o ColonSpace }

LaterChunks == { CI \o ColonSpace }

ChunksAt(k) == IF k = 1 THEN FirstChunks ELSE IF k = 2 THEN SecondChunks ELSE LaterChunks

\* the heads of exactly n prefixes
RECURSIVE HeadsOf(_)
HeadsOf(n) ==
    IF n = 0 THEN {<<>>}
    ELSE { h \o ch : h \in HeadsOf(n - 1), ch \in ChunksAt(n) }

Heads == UNION { HeadsOf(n) : n \in 0..MaxTags }

Subjects ==
    { h \o t : h \in Heads, t \in Texts }
    \cup { ch \o t : ch \in StandardChunks, t \in GoodTexts }
    \cup { BUG \o EAcute \o ColonSpace \o t : t \in GoodTexts }

Policies == {defaultConf, customConf, emptyConf}

\* the largest number of subjects of a list
MaxList == 2

QuoteWrapped(s) == Quote \o s \o Quote

\* subjects of the lists: accepted and rejected ones, with and without quotes
ListSubjects ==
    { BUG \o Slash \o MEDIUM \o ColonSpace \o ConfigDefaultImplementation,
      QuoteWrapped(BUG \o ColonSpace \o ConfigDefaultImplementation),
      WRONG \o ColonSpace \o ConfigDefaultImplementation,
      QuoteWrapped(WRONG \o ColonSpace \o ConfigDefaultImplementation),
      BUG \o Slash \o MEDIUM \o ColonSpace \o Text(MINSUBJECTPARTS - 1, MINSUBJECTLEN),
      SPEC \o ColonSpace \o BUG \o Slash \o MEDIUM \o ColonSpace
          \o ConfigDefaultImplementation,
      BUG \o Slash \o MEDIUM \o ColonSpace \o EAcute \o Space \o ConfigDefaultImplementation }

RECURSIVE ListsOf(_)
ListsOf(n) ==
    IF n = 0 THEN {<<>>}
    ELSE { Append(l, s) : l \in ListsOf(n - 1), s \in ListSubjects }

Lists == UNION { ListsOf(n) : n \in 0..MaxList }

NarrowScope == "Narrow Scope"
MissingScope == "Missing Scope"
UnscopedPatch == "Unscoped Patch"
NarrowPatch == "Narrow Patch"
LateUnscopedPatch == "Late Unscoped Patch"
MissingPatch == "Missing Patch"

\* a policy with nothing but a help text, nothing but a scope, nothing but a type,
\* nothing but a tag position
helpOnlyConf == [emptyConf EXCEPT !.HelpText = DefaultHelpText]

scopeOnlyConf ==
    [emptyConf EXCEPT !.PatchScopes = [k \in {StandardScope} |-> StandardScopeValues]]

typeOnlyConf ==
    [emptyConf EXCEPT !.PatchTypes =
        [k \in {FeatureCommit} |-> [Values |-> StandardScopeValues, Scope |-> ""]]]

orderOnlyConf ==
    [emptyConf EXCEPT !.TagOrder =
        << [PatchTypes |-> <<MissingPatch>>, Optional |-> TRUE] >>]

\* a policy whose position names a group that PatchTypes does not hold, and whose
\* group names a scope that PatchScopes does not hold
danglingConf ==
    [ HelpText    |-> "",
      PatchScopes |-> [k \in {StandardScope} |-> StandardScopeValues],
      PatchTypes  |-> [k \in {StandardPatch} |->
                         [Values |-> StandardPatchValues, Scope |-> MissingScope]],
      TagOrder    |-> << [PatchTypes |-> <<MissingPatch, StandardPatch>>,
                          Optional |-> FALSE] >> ]

\* a policy with four groups at one position that all hold BUG: one without scope,
\* one whose scope lists MINOR only, the standard one, and one more without scope
multiGroupConf ==
    [ HelpText    |-> "",
      PatchScopes |-> [k \in {StandardScope, NarrowScope} |->
                         IF k = StandardScope THEN StandardScopeValues ELSE <<MINOR>>],
      PatchTypes  |-> [k \in {UnscopedPatch, NarrowPatch, StandardPatch,
                              LateUnscopedPatch} |->
                         IF k = NarrowPatch
                         THEN [Values |-> <<BUG, DOC>>, Scope |-> NarrowScope]
                         ELSE IF k = StandardPatch
                         THEN [Values |-> StandardPatchValues, Scope |-> StandardScope]
                         ELSE [Values |-> <<BUG>>, Scope |-> ""]],
      TagOrder    |-> << [PatchTypes |-> <<UnscopedPatch, NarrowPatch, StandardPatch,
                                           LateUnscopedPatch>>,
                          Optional |-> FALSE] >> ]

AllPolicies ==
    Policies \cup {helpOnlyConf, scopeOnlyConf, typeOnlyConf, orderOnlyConf,
                   danglingConf, multiGroupConf}

PolicyHeads ==
    { <<>>,
      BUG \o ColonSpace,
      BUG \o Slash \o MEDIUM \o ColonSpace,
      BUG \o Slash \o MINOR \o ColonSpace,
      BUG \o Slash \o WRONG \o ColonSpace,
      DOC \o Slash \o MEDIUM \o ColonSpace,
      WRONG \o ColonSpace,
      BUG \o Slash \o MEDIUM \o ColonSpace \o BUG \o Slash \o MEDIUM \o ColonSpace,
      SPEC \o ColonSpace \o BUG \o Slash \o MEDIUM \o ColonSpace }

PolicySubjects ==
    { h \o t : h \in PolicyHeads,
               t \in {ConfigDefaultImplementation,
                      Text(MINSUBJECTPARTS - 1, MINSUBJECTLEN - 1)} }

(***************************************************************************)
(* The state.                                                              *)
(***************************************************************************)
VARIABLES
    c,           \* the receiver: the commit policy
    subjects,    \* the argument of CheckSubjectList
    next,        \* the number of subjects CheckSubjectList has taken
    errors,      \* its local flag
    listErr,     \* its result, "pending" until it returns
    pc,          \* the position in the code
    subject,     \* the argument of the running CheckSubject
    rawSubject,  \* its local: what is left of the subject
    pos,         \* the index in c.TagOrder of the running iteration
    candidates,  \* its local
    err,         \* its result
    logged,      \* the lines written by log.Printf
    outcome,     \* history: what each iteration of the TagOrder loop did
    verdicts     \* history: the argument and the result of each call of CheckSubject

vars == <<c, subjects, next, errors, listErr, pc, subject, rawSubject, pos,
          candidates, err, logged, outcome, verdicts>>

\* main has loaded one of the policies and fetched one of the lists of subjects
Start(policies, lists) ==
    /\ c \in policies
    /\ subjects \in lists
    /\ next = 0
    /\ errors = FALSE
    /\ listErr = "pending"
    /\ pc = "main"
    /\ subject = <<>>
    /\ rawSubject = <<>>
    /\ pos = 1
    /\ candidates = <<>>
    /\ err = NoError
    /\ logged = <<>>
    /\ outcome = <<>>
    /\ verdicts = <<>>

Init == Start(Policies, { <<s>> : s \in Subjects })

InitList == Start(Policies, Lists)

InitPolicy == Start(AllPolicies, { <<s>> : s \in PolicySubjects })

(***************************************************************************)
(* main                                                                    *)
(***************************************************************************)
\* yaml.Marshal of a policy: the four keys in the order of the struct fields; a
\* mapping is rendered by its entries (their order is that of the sorted keys), an
\* empty mapping as {} whether nil or not, an empty sequence as []
Marshal(p) ==
    << <<"PatchScopes", {<<k, p.PatchScopes[k]>> : k \in DOMAIN p.PatchScopes}>>,
       <<"PatchTypes", {<<k, p.PatchTypes[k].Values, p.PatchTypes[k].Scope>> :
                            k \in DOMAIN p.PatchTypes}>>,
       <<"TagOrder", [i \in DOMAIN p.TagOrder |->
                         <<p.TagOrder[i].PatchTypes, p.TagOrder[i].Optional>>]>>,
       <<"HelpText", p.HelpText>> >>

\* compares the first three keys only
IsEmptyIgnoresHelpText(p) == SubSeq(Marshal(p), 1, 3) = SubSeq(Marshal(emptyConf), 1, 3)

IsEmpty(p) == Marshal(p) = Marshal(emptyConf)

\* the warning for an empty configuration, then CheckSubjectList is called
Main ==
    /\ pc = "main"
    /\ logged' = IF IsEmpty(c)
                 THEN Append(logged,
                        LogLine("WARNING: using empty configuration (i.e. no verification)",
                                <<>>))
                 ELSE logged
    /\ pc' = "list"
    /\ UNCHANGED <<c, verdicts, subjects, next, errors, listErr, subject, rawSubject, pos,
                   candidates, err, outcome>>

\* starts the loop over TagOrder where the previous subject left it
ListNextKeepsPos ==
    /\ pc = "list"
    /\ next < Len(subjects)
    /\ next' = next + 1
    /\ subject' = Trim(subjects[next + 1], Quote[1])
    /\ rawSubject' = Trim(subjects[next + 1], Quote[1])
    /\ pos' = pos
    /\ candidates' = <<>>
    /\ err' = NoError
    /\ outcome' = <<>>
    /\ pc' = "ascii"
    /\ UNCHANGED <<c, verdicts, subjects, errors, listErr, logged>>

(***************************************************************************)
(* CheckSubjectList                                                        *)
(***************************************************************************)
\* the loop takes the next subject, trims the quotes and calls CheckSubject
ListNext ==
    /\ pc = "list"
    /\ next < Len(subjects)
    /\ next' = next + 1
    /\ subject' = Trim(subjects[next + 1], Quote[1])
    /\ rawSubject' = Trim(subjects[next + 1], Quote[1])
    /\ pos' = 1
    /\ candidates' = <<>>
    /\ err' = NoError
    /\ outcome' = <<>>
    /\ pc' = "ascii"
    /\ UNCHANGED <<c, verdicts, subjects, errors, listErr, logged>>

\* remembers the failure of the last subject only
ListReturnLastOnly ==
    /\ pc = "return"
    /\ errors' = (err # NoError)
    /\ logged' = IF err # NoError
                 THEN Append(logged, LogLine("original subject message", <<subject>>))
                 ELSE logged
    /\ verdicts' = Append(verdicts, [subject |-> subject, err |-> err])
    /\ pc' = "list"
    /\ UNCHANGED <<c, subjects, next, listErr, subject, rawSubject, pos, candidates,
                   err, outcome>>

\* CheckSubject has returned: a failure is logged and remembered
ListReturn ==
    /\ pc = "return"
    /\ errors' = (errors \/ err # NoError)
    /\ logged' = IF err # NoError
                 THEN Append(logged, LogLine("original subject message", <<subject>>))
                 ELSE logged
    /\ verdicts' = Append(verdicts, [subject |-> subject, err |-> err])
    /\ pc' = "list"
    /\ UNCHANGED <<c, subjects, next, listErr, subject, rawSubject, pos, candidates,
                   err, outcome>>

\* the loop is over
ListDone ==
    /\ pc = "list"
    /\ next = Len(subjects)
    /\ listErr' = IF errors THEN ErrSubjectList ELSE ""
    /\ pc' = "done"
    /\ UNCHANGED <<c, verdicts, subjects, next, errors, subject, rawSubject, pos, candidates,
                   err, logged, outcome>>

(***************************************************************************)
(* CheckSubject                                                            *)
(***************************************************************************)
HasNonASCIIFirstByteOnly(s) == Len(s) > 0 /\ s[1] > MaxASCII

HasNonASCII(s) == \E i \in DOMAIN s : s[i] > MaxASCII

\* the scan for a byte above unicode.MaxASCII
AsciiCheck ==
    /\ pc = "ascii"
    /\ IF HasNonASCII(rawSubject)
       THEN /\ err' = NonASCIIError
            /\ logged' = Append(logged,
                   LogLine("non-ascii characters detected in in subject", <<rawSubject>>))
            /\ pc' = "return"
       ELSE /\ pc' = "tags"
            /\ UNCHANGED <<err, logged>>
    /\ UNCHANGED <<c, verdicts, subjects, next, errors, listErr, subject, rawSubject, pos,
                   candidates, outcome>>

\* tagOK at the end of an iteration in which group k accepted (k = 0: none did)
TagOKIgnoresOptional(optional, k) == k > 0

TagOK(optional, k) == optional \/ k > 0

\* rawSubject at the end of such an iteration: an accepted prefix is cut off
RemainderKeepsSpace(s, submatch, k) ==
    IF k > 0 THEN Slice(s, submatch[2] - 1, Len(s)) ELSE s

\* cuts the prefix off whether or not a group accepted it
RemainderAlwaysCuts(s, submatch, k) == Slice(s, submatch[2], Len(s))

\* cuts a second prefix off when one follows the accepted one
RemainderCutsTwice(s, submatch, k) ==
    IF k = 0 THEN s
    ELSE LET rest == Slice(s, submatch[2], Len(s))
             again == FindSubmatchIndex(rest)
         IN  IF Len(again) = 0 THEN rest ELSE Slice(rest, again[2], Len(rest))

Remainder(s, submatch, k) ==
    IF k > 0 THEN Slice(s, submatch[2], Len(s)) ELSE s

\* one iteration of the loop over c.TagOrder
TagPosition ==
    /\ pc = "tags"
    /\ pos <= Len(c.TagOrder)
    /\ LET tagAlternative == c.TagOrder[pos]
           submatch == FindSubmatchIndex(rawSubject)
       IN  IF Len(submatch) = 0
           THEN \* no match: continue
                /\ pos' = pos + 1
                /\ outcome' = Append(outcome, "nomatch")
                /\ UNCHANGED <<rawSubject, candidates, err, logged, pc>>
           ELSE LET tagPart == Slice(rawSubject, submatch[1], submatch[2])
                    tag == ExpandTag(tagPart, submatch)
                    severity == ExpandSeverity(tagPart, submatch)
                    k == FirstAccepting(c, tag, severity, tagAlternative.PatchTypes, 1)
                    tagOK == TagOK(tagAlternative.Optional, k)
                    scanned == ScanLog(c, tag, severity, tagAlternative.PatchTypes, 1)
                IN  /\ rawSubject' = Remainder(rawSubject, submatch, k)
                    /\ candidates' = Append(candidates, tagPart)
                    /\ IF ~tagOK
                       THEN /\ logged' = logged \o scanned \o
                                   <<LogLine("unable to find match in",
                                             Append(candidates, tagPart))>>
                            /\ err' = InvalidTagError(tagAlternative.PatchTypes)
                            /\ outcome' = Append(outcome, "failed")
                            /\ pc' = "return"
                            /\ pos' = pos
                       ELSE /\ logged' = logged \o scanned
                            /\ outcome' = Append(outcome,
                                                 IF k > 0 THEN "consumed" ELSE "kept")
                            /\ pos' = pos + 1
                            /\ UNCHANGED <<err, pc>>
    /\ UNCHANGED <<c, verdicts, subjects, next, errors, listErr, subject>>

\* the test made after the loop: the expression still matches what is left
HasUnprocessedTagsNever(s) == FALSE

HasUnprocessedTags(s) == Len(FindSubmatchIndex(s)) # 0

\* CheckSubject as a function of the policy and of the subject: the loop over
\* TagOrder from position k on with s left, then the two final tests
RECURSIVE CheckSubjectFrom(_, _, _)
CheckSubjectFrom(p, s, k) ==
    IF k > Len(p.TagOrder)
    THEN IF HasUnprocessedTags(s) THEN UnprocessedTagsError ELSE checkSubjectText(s)
    ELSE LET tagAlternative == p.TagOrder[k]
             submatch == FindSubmatchIndex(s)
         IN  IF Len(submatch) = 0 THEN CheckSubjectFrom(p, s, k + 1)
             ELSE LET tagPart == Slice(s, submatch[1], submatch[2])
                      g == FirstAccepting(p, ExpandTag(tagPart, submatch),
                                          ExpandSeverity(tagPart, submatch),
                                          tagAlternative.PatchTypes, 1)
                  IN  IF ~TagOK(tagAlternative.Optional, g)
                      THEN InvalidTagError(tagAlternative.PatchTypes)
                      ELSE CheckSubjectFrom(p, Remainder(s, submatch, g), k + 1)

CheckSubject(p, s) ==
    IF HasNonASCII(s) THEN NonASCIIError ELSE CheckSubjectFrom(p, s, 1)

\* after the loop: a remainder that still matches the expression is an error
UnprocessedCheck ==
    /\ pc = "tags"
    /\ pos > Len(c.TagOrder)
    /\ IF HasUnprocessedTags(rawSubject)
       THEN /\ err' = UnprocessedTagsError
            /\ pc' = "return"
       ELSE /\ pc' = "text"
            /\ UNCHANGED err
    /\ UNCHANGED <<c, verdicts, subjects, next, errors, listErr, subject, rawSubject, pos,
                   candidates, logged, outcome>>

\* return checkSubjectText(string(rawSubject))
TextCheck ==
    /\ pc = "text"
    /\ err' = checkSubjectText(rawSubject)
    /\ pc' = "return"
    /\ UNCHANGED <<c, verdicts, subjects, next, errors, listErr, subject, rawSubject, pos,
                   candidates, logged, outcome>>

Next ==
    \/ Main
    \/ ListNext
    \/ AsciiCheck
    \/ TagPosition
    \/ UnprocessedCheck
    \/ TextCheck
    \/ ListReturn
    \/ ListDone

Spec == Init /\ [][Next]_vars

\* CheckSubjectList on lists of several subjects
SpecList == InitList /\ [][Next]_vars

\* policies with dangling names, with several groups at a position, with one part only
SpecPolicy == InitPolicy /\ [][Next]_vars

(***************************************************************************)
(* Vocabulary of the properties.                                           *)
(***************************************************************************)
Last(s) == s[Len(s)]

IsPrefix(p, s) == Len(p) <= Len(s) /\ SubSeq(s, 1, Len(p)) = p

Drop(s, n) == SubSeq(s, n + 1, Len(s))

\* CheckSubject has returned to CheckSubjectList
Returned == pc = "return"

Accepted == Returned /\ err = NoError

\* some byte of s is not a 7-bit ASCII code
OutsideASCII(s) == \E i \in DOMAIN s : s[i] >= 128

\* a well-formed tag prefix starts s
WellFormedPrefix(s) == FindSubmatchIndex(s) # <<>>

\* the only white space of t is single spaces between words
SingleSpaced(t) ==
    \A i \in DOMAIN t :
        IsSpace(t[i]) => /\ t[i] = 32
                         /\ i > 1
                         /\ i < Len(t)
                         /\ ~IsSpace(t[i + 1])

\* the number of words of a single-spaced text
WordCount(t) == IF t = <<>> THEN 0 ELSE Cardinality({i \in DOMAIN t : t[i] = 32}) + 1

WithinBounds(t) ==
    /\ WordCount(t) >= 3 /\ WordCount(t) <= 15
    /\ Len(t) >= 15 /\ Len(t) <= 100

\* t passes the white space, word count and length rules
GoodText(t) == SingleSpaced(t) /\ WithinBounds(t)

\* the tag and the severity that a well-formed prefix spells
TagOf(prefix) == SubSeq(prefix, 1, UpperRun(prefix, 0))
SeverityOf(prefix) ==
    LET t == UpperRun(prefix, 0)
    IN  IF prefix[t + 1] = 47 THEN SubSeq(prefix, t + 2, Len(prefix) - 2) ELSE <<>>

\* the iteration at position k found a prefix; the j-th prefix found is candidates[j]
Matched(k) == outcome[k] # "nomatch"
CandidateIndex(k) == Cardinality({m \in 1..k : Matched(m)})

\* the prefixes stripped by the first k iterations, in order, as one string
RECURSIVE Stripped(_)
Stripped(k) ==
    IF k = 0 THEN <<>>
    ELSE Stripped(k - 1) \o
         (IF outcome[k] = "consumed" THEN candidates[CandidateIndex(k)] ELSE <<>>)

\* group g of policy c holds the tag in its vocabulary
InVocabulary(g, tag) == tag \in Range(PatchTypeOf(c, g).Values)

\* group g declares a scope and that scope lists the severity
SeverityInScope(g, severity) ==
    /\ PatchTypeOf(c, g).Scope # ""
    /\ severity \in Range(PatchScopeOf(c, PatchTypeOf(c, g).Scope))

\* some group of position k holds the tag of the prefix found there and, when the
\* prefix carries a severity, lists that severity in its scope
GroupAccepts(k) ==
    \E j \in DOMAIN c.TagOrder[k].PatchTypes :
        LET g == c.TagOrder[k].PatchTypes[j]
            prefix == candidates[CandidateIndex(k)]
        IN  /\ InVocabulary(g, TagOf(prefix))
            /\ SeverityOf(prefix) # <<>> => SeverityInScope(g, SeverityOf(prefix))

\* the loop over TagOrder ran to its end
AllPositionsDone ==
    /\ Len(outcome) = Len(c.TagOrder)
    /\ \A k \in DOMAIN outcome : outcome[k] # "failed"

\* CheckSubject returned what checkSubjectText returned
ReturnedFromText ==
    /\ Returned
    /\ ~OutsideASCII(subject)
    /\ AllPositionsDone
    /\ ~WellFormedPrefix(rawSubject)

(***************************************************************************)
(* C1  Under the built-in policy CheckSubject accepts every ASCII subject  *)
(* "T/S: text" or "T: text" with T a standard patch type, S a standard     *)
(* severity and text a single-spaced text of 3..15 words and 15..100       *)
(* bytes that does not start with a well-formed tag prefix.                *)
(***************************************************************************)
C1_Form(s) ==
    \E t \in StandardTypes, v \in {<<>>} \cup {Slash \o x : x \in StandardSeverities} :
        LET prefix == t \o v \o ColonSpace
        IN  /\ IsPrefix(prefix, s)
            /\ ~OutsideASCII(s)
            /\ ~WellFormedPrefix(Drop(s, Len(prefix)))
            /\ GoodText(Drop(s, Len(prefix)))

C2_MandatoryPositionEnforced ==
    (Returned /\ \E k \in DOMAIN outcome :
                    ~c.TagOrder[k].Optional /\ outcome[k] # "consumed")
    => err # NoError

(***************************************************************************)
(* C3  A well-formed prefix at a non-optional position that no group       *)
(* accepts makes CheckSubject fail with ErrTagScope.  As claimed, the      *)
(* returned error carries the group names searched and the candidate text; *)
(* as amended, it carries the group names only and the candidate text is   *)
(* written to the log.                                                     *)
(***************************************************************************)
C3_Failed(k) == ~c.TagOrder[k].Optional /\ Matched(k) /\ ~GroupAccepts(k)

C3_ErrorCarriesCandidate ==
    \A k \in DOMAIN outcome :
        C3_Failed(k) =>
            /\ err.wraps = ErrTagScope
            /\ err.searched = c.TagOrder[k].PatchTypes
            /\ err.text = Last(candidates)

C3_ErrorNamesGroupsLogNamesCandidate ==
    \A k \in DOMAIN outcome :
        C3_Failed(k) =>
            /\ k = Len(outcome)
            /\ outcome[k] = "failed"
            /\ pc \in {"return", "list", "done"}
            /\ IsPrefix(Last(candidates), rawSubject)
            /\ err.wraps = ErrTagScope
            /\ err.searched = c.TagOrder[k].PatchTypes
            /\ err.text = <<>>
            /\ \E n \in DOMAIN logged :
                  logged[n] = LogLine("unable to find match in", candidates)

C3_Witness ==
    /\ Returned
    /\ outcome = <<"failed">>
    /\ C3_Failed(1)
    /\ c = defaultConf
    /\ subject = WRONG \o ColonSpace \o ConfigDefaultImplementation
    /\ err.searched = <<StandardPatch, FeatureCommit>>

(***************************************************************************)
(* C4  A prefix that carries a severity is accepted at a position exactly  *)
(* when one of the position's groups holds the tag, declares a scope and   *)
(* that scope lists the severity; a group without a scope never accepts a  *)
(* tag with a severity ("BUG/WRONG: " and "MINOR/MAJOR: " are rejected     *)
(* under the built-in policy).                                             *)
(***************************************************************************)
C4_SeverityNeedsScope ==
    /\ \A k \in DOMAIN outcome :
          Matched(k) =>
              LET prefix == candidates[CandidateIndex(k)]
              IN  \A j \in DOMAIN c.TagOrder[k].PatchTypes :
                      LET g == c.TagOrder[k].PatchTypes[j]
                      IN  (InVocabulary(g, TagOf(prefix)) /\ SeverityOf(prefix) # <<>>) =>
                              /\ CheckPatchTypes(c, TagOf(prefix), SeverityOf(prefix), g)
                                    <=> SeverityInScope(g, SeverityOf(prefix))
                              /\ PatchTypeOf(c, g).Scope = "" =>
                                    ~CheckPatchTypes(c, TagOf(prefix), SeverityOf(prefix), g)
    /\ \A k \in DOMAIN outcome :
          (Matched(k) /\ SeverityOf(candidates[CandidateIndex(k)]) # <<>>) =>
              LET prefix == candidates[CandidateIndex(k)]
              IN  (outcome[k] = "consumed") <=>
                      \E j \in DOMAIN c.TagOrder[k].PatchTypes :
                          /\ InVocabulary(c.TagOrder[k].PatchTypes[j], TagOf(prefix))
                          /\ SeverityInScope(c.TagOrder[k].PatchTypes[j],
                                             SeverityOf(prefix))
    /\ (Returned /\ c = defaultConf
          /\ (\/ IsPrefix(BUG \o Slash \o WRONG \o ColonSpace, subject)
              \/ IsPrefix(MINOR \o Slash \o MAJOR \o ColonSpace, subject)))
       => err.wraps = ErrTagScope

C4_Witness ==
    /\ Returned /\ c = defaultConf
    /\ subject = MINOR \o Slash \o MAJOR \o ColonSpace \o ConfigDefaultImplementation
    /\ outcome = <<"failed">>
    /\ Len(logged) = 2

(***************************************************************************)
(* C5  A prefix without severity whose tag is in the vocabulary of one of  *)
(* the position's groups satisfies the position and is consumed, whether   *)
(* or not the group declares a scope ("MINOR: config: default              *)
(* implementation" is accepted under the built-in policy and under the     *)
(* policy with an optional first position).                                *)
(***************************************************************************)
C5_BareTagConsumed ==
    /\ \A k \in DOMAIN outcome :
          (/\ Matched(k)
           /\ SeverityOf(candidates[CandidateIndex(k)]) = <<>>
           /\ \E j \in DOMAIN c.TagOrder[k].PatchTypes :
                 InVocabulary(c.TagOrder[k].PatchTypes[j],
                              TagOf(candidates[CandidateIndex(k)])))
          => /\ outcome[k] = "consumed"
             /\ IsPrefix(Stripped(k), subject)
             /\ IsPrefix(Stripped(k - 1) \o candidates[CandidateIndex(k)], subject)
             /\ Len(Stripped(k)) = Len(Stripped(k - 1)) + Len(candidates[CandidateIndex(k)])
             /\ (k = Len(outcome) => rawSubject = Drop(subject, Len(Stripped(k))))
    /\ (Returned /\ c \in {defaultConf, customConf}
          /\ subject = MINOR \o ColonSpace \o ConfigDefaultImplementation)
       => err = NoError

C5_Witness ==
    /\ Accepted /\ c = customConf
    /\ subject = MINOR \o ColonSpace \o ConfigDefaultImplementation
    /\ outcome = <<"kept", "consumed">>
    /\ rawSubject = ConfigDefaultImplementation

(***************************************************************************)
(* C6  Under the built-in policy a subject whose leading tag is followed   *)
(* by "/" and an empty severity ("BUG/: config: default implementation")   *)
(* is rejected with ErrTagScope.                                           *)
(***************************************************************************)
C6_EmptySeverity(s) ==
    LET t == UpperRun(s, 0)
    IN  t > 0 /\ t + 1 <= Len(s) /\ s[t + 1] = 47 /\ ColonSpaceAt(s, t + 1)

C6_EmptySeverityRejected ==
    (Returned /\ c = defaultConf /\ C6_EmptySeverity(subject)) => err.wraps = ErrTagScope

(***************************************************************************)
(* C7  After all tag positions were processed, a remainder that still      *)
(* begins with a well-formed tag prefix makes CheckSubject fail with       *)
(* ErrTagScope, whatever the tag ("BUG/MEDIUM: MAJOR: ..." under the       *)
(* built-in policy, "SPEC: BUG/MEDIUM: CI: ..." under the two-position     *)
(* policy).                                                                *)
(***************************************************************************)
C7_UnprocessedTagRejected ==
    /\ (Returned /\ ~OutsideASCII(subject) /\ AllPositionsDone
          /\ WellFormedPrefix(rawSubject))
       => err = UnprocessedTagsError /\ err.wraps = ErrTagScope
    /\ (Returned /\ c = defaultConf
          /\ IsPrefix(BUG \o Slash \o MEDIUM \o ColonSpace \o MAJOR \o ColonSpace, subject))
       => err.wraps = ErrTagScope
    /\ (Returned /\ c = customConf
          /\ IsPrefix(SPEC \o ColonSpace \o BUG \o Slash \o MEDIUM \o ColonSpace
                      \o CI \o ColonSpace, subject))
       => err.wraps = ErrTagScope

C7_Witness ==
    /\ Returned /\ c = customConf
    /\ subject = SPEC \o ColonSpace \o BUG \o Slash \o MEDIUM \o ColonSpace
                 \o CI \o ColonSpace \o ConfigDefaultImplementation
    /\ outcome = <<"consumed", "consumed">>
    /\ rawSubject = CI \o ColonSpace \o ConfigDefaultImplementation
    /\ err = UnprocessedTagsError

(***************************************************************************)
(* C8  An optional position whose groups do not accept the extracted       *)
(* prefix is not an error and leaves the remainder unchanged, so that the  *)
(* next position is matched against the same prefix; an optional position  *)
(* whose group accepts the prefix consumes it.  With the optional position *)
(* {SPEC} before the built-in one, "SPEC: BUG/MEDIUM: text" and            *)
(* "BUG/MEDIUM: text" are accepted and "WRONG: BUG/MEDIUM: text" is        *)
(* rejected.                                                               *)
(***************************************************************************)
C8_OptionalPosition ==
    /\ \A k \in DOMAIN outcome :
          (c.TagOrder[k].Optional /\ Matched(k)) =>
              /\ outcome[k] = (IF GroupAccepts(k) THEN "consumed" ELSE "kept")
              /\ k = Len(outcome) =>
                    /\ rawSubject = Drop(subject, Len(Stripped(k)))
                    /\ err = NoError
                    /\ pc = "tags"
              /\ outcome[k] = "kept" =>
                    /\ Stripped(k) = Stripped(k - 1)
                    /\ k = Len(outcome) =>
                          IsPrefix(candidates[CandidateIndex(k)], rawSubject)
                    /\ k < Len(outcome) =>
                          /\ Matched(k + 1)
                          /\ candidates[CandidateIndex(k + 1)] = candidates[CandidateIndex(k)]
    /\ \A t \in GoodTexts :
          /\ (Returned /\ c = customConf
                /\ subject \in { SPEC \o ColonSpace \o BUG \o Slash \o MEDIUM \o ColonSpace \o t,
                                 BUG \o Slash \o MEDIUM \o ColonSpace \o t })
             => err = NoError
          /\ (Returned /\ c = customConf
                /\ subject = WRONG \o ColonSpace \o BUG \o Slash \o MEDIUM \o ColonSpace \o t)
             => err.wraps = ErrTagScope

C8_Witness ==
    /\ Accepted /\ c = customConf
    /\ subject = BUG \o Slash \o MEDIUM \o ColonSpace \o ConfigDefaultImplementation
    /\ outcome = <<"kept", "consumed">>
    /\ candidates = << BUG \o Slash \o MEDIUM \o ColonSpace,
                       BUG \o Slash \o MEDIUM \o ColonSpace >>

(***************************************************************************)
(* C9  For every policy whose TagOrder is empty, CheckSubject accepts      *)
(* every ASCII subject that satisfies the white space, word count and      *)
(* length rules, also one that starts with a well-formed tag prefix.       *)
(***************************************************************************)
C9_EmptyTagOrderAcceptsGoodText ==
    (Returned /\ c.TagOrder = <<>> /\ ~OutsideASCII(subject) /\ GoodText(subject))
    => err = NoError

C11_WhiteSpaceRejected ==
    (ReturnedFromText /\ ~SingleSpaced(rawSubject)) =>
        /\ err = MalformattedError(rawSubject)
        /\ err.wraps = ErrSubjectMessageFormat

C11_Witness ==
    /\ ReturnedFromText /\ c = defaultConf
    /\ subject = BUG \o Slash \o MEDIUM \o ColonSpace
                 \o Rep(lcx, 15) \o Space \o Space \o lcy \o Space \o lcy
    /\ rawSubject = Rep(lcx, 15) \o Space \o Space \o lcy \o Space \o lcy
    /\ Len(Fields(rawSubject)) = 3
    /\ Len(rawSubject) = 20
    /\ err.wraps = ErrSubjectMessageFormat

(***************************************************************************)
(* C12  The check for a meaningful message rejects every subject whose     *)
(* message text has fewer than 20 characters or fewer than 3 words.        *)
(***************************************************************************)
C12_TwentyCharactersThreeWords ==
    Accepted => Len(rawSubject) >= 20 /\ WordCount(rawSubject) >= 3

(***************************************************************************)
(* C13  A subject with a byte outside 7-bit ASCII anywhere, in a tag or in *)
(* the text, is rejected with ErrTagScope before any tag position is       *)
(* evaluated, under every policy, the empty one included.                  *)
(***************************************************************************)
C13_NonASCIIRejectedFirst ==
    OutsideASCII(subject) =>
        /\ pc \in {"ascii", "return", "list", "done"}
        /\ outcome = <<>>
        /\ candidates = <<>>
        /\ rawSubject = subject
        /\ pc # "ascii" => err = NonASCIIError /\ err.wraps = ErrTagScope

C13_Witness ==
    /\ Returned /\ c = emptyConf
    /\ subject = BUG \o EAcute \o ColonSpace \o ConfigDefaultImplementation
    /\ err.wraps = ErrTagScope

(***************************************************************************)
(* C14  As claimed, a subject with a non-ASCII byte is rejected with the   *)
(* format error, a kind distinct from the tag errors.  As amended, it is   *)
(* rejected with ErrTagScope, the kind of the vocabulary and severity      *)
(* errors, and only the message tells the two apart.                       *)
(***************************************************************************)
C14_NonASCIIIsFormatError ==
    (Returned /\ OutsideASCII(subject)) =>
        /\ err.wraps = ErrSubjectMessageFormat
        /\ err.wraps # InvalidTagError(<<>>).wraps

C14_NonASCIISharesTagErrorKind ==
    (Returned /\ OutsideASCII(subject)) =>
        /\ err.wraps = InvalidTagError(<<>>).wraps
        /\ err.wraps = UnprocessedTagsError.wraps
        /\ err.wraps # ErrSubjectMessageFormat
        /\ err.msg # InvalidTagError(<<>>).msg
        /\ err.msg # UnprocessedTagsError.msg

C14_Witness ==
    /\ Returned /\ c = defaultConf
    /\ subject = BUG \o Slash \o MEDIUM \o ColonSpace
                 \o Rep(lcx, 15) \o Space \o EAcute \o Space \o lcy
    /\ err.wraps = ErrTagScope

(***************************************************************************)
(* C18  CheckSubject reports the first failure in the order: non-ASCII     *)
(* byte, tag positions in TagOrder order (the first failing position ends  *)
(* the check), unprocessed tag, white space shape, word count, length.  A  *)
(* remainder with a doubled space and too few words reports the white      *)
(* space error; a wrong tag with a too short text reports the tag error.   *)
(***************************************************************************)
C18_TextVerdict(t) ==
    IF ~SingleSpaced(t) THEN MalformattedError(t)
    ELSE IF WordCount(t) < 3 \/ WordCount(t) > 15 THEN WordCountError(t, WordCount(t))
    ELSE IF Len(t) < 15 \/ Len(t) > 100 THEN LengthError(t, Len(t))
    ELSE NoError

C18_PositionFailed(k) == ~c.TagOrder[k].Optional /\ Matched(k) /\ ~GroupAccepts(k)

C18_FirstFailureReported ==
    Returned =>
        IF OutsideASCII(subject)
        THEN err = NonASCIIError /\ outcome = <<>>
        ELSE IF \E k \in DOMAIN outcome : C18_PositionFailed(k)
        THEN \A k \in DOMAIN outcome :
                 C18_PositionFailed(k) =>
                     /\ k = Len(outcome)
                     /\ err = InvalidTagError(c.TagOrder[k].PatchTypes)
        ELSE /\ Len(outcome) = Len(c.TagOrder)
             /\ err = IF WellFormedPrefix(rawSubject)
                      THEN UnprocessedTagsError
                      ELSE C18_TextVerdict(rawSubject)

C18_Witness ==
    /\ Returned /\ c = customConf
    /\ subject = WRONG \o ColonSpace \o Text(2, 14)
    /\ outcome = <<"kept", "failed">>
    /\ err = InvalidTagError(<<StandardPatch, FeatureCommit>>)
    /\ C18_TextVerdict(Text(2, 14)) = WordCountError(Text(2, 14), 2)
    /\ C18_TextVerdict(Rep(lcx, 15) \o Space \o Space \o lcy).msg
          = MalformattedError(<<>>).msg

(***************************************************************************)
(* C15: CheckSubjectList returns no error exactly when CheckSubject        *)
(* accepts every subject of the list, each one without its surrounding     *)
(* single quotes; every subject is evaluated, also after a failure; the    *)
(* error is ErrSubjectList; the empty list is accepted.                    *)
(***************************************************************************)
ListReturned == pc = "done"

Unquoted(s) ==
    LET inner == {i \in 1..Len(s) : s[i] # Quote[1]}
    IN  IF inner = {} THEN <<>>
        ELSE LET lo == CHOOSE i \in inner : \A m \in inner : i <= m
                 hi == CHOOSE i \in inner : \A m \in inner : m <= i
             IN  [i \in 1..(hi - lo + 1) |-> s[lo + i - 1]]

C15_ListVerdict ==
    ListReturned =>
        /\ Len(verdicts) = Len(subjects)
        /\ \A i \in 1..Len(subjects) : verdicts[i].subject = Unquoted(subjects[i])
        /\ listErr = "" <=>
               \A i \in 1..Len(subjects) :
                   CheckSubject(c, Unquoted(subjects[i])) = NoError
        /\ listErr # "" => listErr = ErrSubjectList
        /\ subjects = <<>> => listErr = ""

\* a list whose first subject failed and whose second, quoted one was still
\* evaluated and accepted
C15_Witness ==
    /\ ListReturned
    /\ Len(subjects) = 2
    /\ verdicts[1].err # NoError
    /\ verdicts[2].err = NoError
    /\ subjects[2][1] = Quote[1]
    /\ listErr = ErrSubjectList

(***************************************************************************)
(* C16: the verdict of a subject is a function of the policy and of the    *)
(* subject alone: it is the same whatever was checked before it, the same  *)
(* pair gets the same verdict twice, the policy is never modified, and     *)
(* checkSubjectText accepts again the remainder it accepted.               *)
(***************************************************************************)
C16_VerdictIsFunction ==
    /\ \A i \in 1..Len(verdicts) :
           verdicts[i].err = CheckSubject(c, verdicts[i].subject)
    /\ \A i, j \in 1..Len(verdicts) :
           verdicts[i].subject = verdicts[j].subject => verdicts[i].err = verdicts[j].err
    /\ (ReturnedFromText /\ err = NoError) => checkSubjectText(subject) = NoError

MainDone == pc # "main"

Warned ==
    /\ Len(logged) > 0
    /\ logged[1].msg = "WARNING: using empty configuration (i.e. no verification)"

NoScopeTypePosition(p) ==
    /\ DOMAIN p.PatchScopes = {}
    /\ DOMAIN p.PatchTypes = {}
    /\ Len(p.TagOrder) = 0

C17_EmptyWhateverHelpText == MainDone => (Warned <=> NoScopeTypePosition(c))

C17_EmptyIncludesHelpText ==
    MainDone => (Warned <=> (NoScopeTypePosition(c) /\ c.HelpText = ""))

\* a policy that holds a help text and nothing else: no warning
C17_Witness ==
    /\ MainDone
    /\ NoScopeTypePosition(c)
    /\ c.HelpText # ""
    /\ ~Warned

(***************************************************************************)
(* C19: at a position where a prefix is found, its one (tag, severity)     *)
(* pair is tested against the groups in declared order.  The prefix is     *)
(* consumed exactly when some group of the position accepts the pair, also *)
(* when earlier groups hold the tag and fail on the severity; it is        *)
(* consumed once; the groups after the first accepting one are not         *)
(* tested; one prefix is extracted per position.                           *)
(***************************************************************************)
PrefixAt(k) == candidates[CandidateIndex(k)]

\* group j of position k accepts the pair found at position k
AcceptsAt(k, j) ==
    LET g == c.TagOrder[k].PatchTypes[j]
    IN  /\ InVocabulary(g, TagOf(PrefixAt(k)))
        /\ SeverityOf(PrefixAt(k)) # <<>> => SeverityInScope(g, SeverityOf(PrefixAt(k)))

\* the last group tested at position k: the first accepting one, else the last one
LastTested(k) ==
    LET groups == DOMAIN c.TagOrder[k].PatchTypes
        accepting == {j \in groups : AcceptsAt(k, j)}
    IN  IF accepting = {} THEN Len(c.TagOrder[k].PatchTypes)
        ELSE CHOOSE j \in accepting : \A m \in accepting : j <= m

\* the groups tested at position k that hold the tag and cannot verify its severity
Unverifiable(k) ==
    IF ~Matched(k) \/ SeverityOf(PrefixAt(k)) = <<>> THEN {}
    ELSE {j \in 1..LastTested(k) :
              LET g == c.TagOrder[k].PatchTypes[j]
              IN  InVocabulary(g, TagOf(PrefixAt(k))) /\ PatchTypeOf(c, g).Scope = ""}

RECURSIVE UnverifiableUpTo(_)
UnverifiableUpTo(k) ==
    IF k = 0 THEN 0 ELSE UnverifiableUpTo(k - 1) + Cardinality(Unverifiable(k))

UnverifiedLines ==
    {i \in DOMAIN logged : logged[i].msg = "unable to verify severity without definitions"}

C19_GroupsScannedInOrder ==
    /\ Len(candidates) = Cardinality({k \in DOMAIN outcome : Matched(k)})
    /\ \A k \in DOMAIN outcome :
           Matched(k) =>
               /\ IsPrefix(PrefixAt(k), Drop(subject, Len(Stripped(k - 1))))
               /\ outcome[k] = "consumed" <=>
                      \E j \in DOMAIN c.TagOrder[k].PatchTypes : AcceptsAt(k, j)
    /\ subject = Stripped(Len(outcome)) \o rawSubject
    /\ Len(verdicts) = 0 => Cardinality(UnverifiedLines) = UnverifiableUpTo(Len(outcome))

\* "BUG/MEDIUM: BUG/MEDIUM: ..." under the policy with four groups holding BUG: the
\* first group cannot verify, the second fails on the severity, the third accepts,
\* the fourth is not tested, and the second prefix is left in place
C19_Witness ==
    /\ Returned
    /\ c = multiGroupConf
    /\ outcome = <<"consumed">>
    /\ candidates = <<BUG \o Slash \o MEDIUM \o ColonSpace>>
    /\ IsPrefix(BUG \o Slash \o MEDIUM \o ColonSpace, rawSubject)
    /\ Cardinality(UnverifiedLines) = 1
    /\ err = UnprocessedTagsError

(***************************************************************************)
(* C20: a group named by a tag position and absent from PatchTypes accepts *)
(* no tag; a group whose scope is absent from PatchScopes accepts none of  *)
(* its tags with a severity and all of its tags without one.  A subject    *)
(* checked under such a policy is accepted or rejected with one of the two *)
(* ordinary error kinds: at a mandatory position all of whose groups       *)
(* dangle, a prefix with a severity gets the invalid tag error.            *)
(***************************************************************************)
MissingGroup(g) == g \notin DOMAIN c.PatchTypes

MissingScopeOf(g) ==
    /\ g \in DOMAIN c.PatchTypes
    /\ c.PatchTypes[g].Scope # ""
    /\ c.PatchTypes[g].Scope \notin DOMAIN c.PatchScopes

ProbeTags == {BUG, DOC, SPEC, WRONG}
ProbeSeverities == {MINOR, MEDIUM, WRONG}

NamedGroups == UNION { Range(c.TagOrder[k].PatchTypes) : k \in DOMAIN c.TagOrder }

C20_DanglingNeverMatches ==
    /\ \A g \in NamedGroups, tag \in ProbeTags :
           /\ MissingGroup(g) =>
                  /\ ~CheckPatchTypes(c, tag, EmptyString, g)
                  /\ \A severity \in ProbeSeverities :
                         ~CheckPatchTypes(c, tag, severity, g)
           /\ MissingScopeOf(g) =>
                  /\ CheckPatchTypes(c, tag, EmptyString, g) <=> InVocabulary(g, tag)
                  /\ \A severity \in ProbeSeverities :
                         ~CheckPatchTypes(c, tag, severity, g)
    /\ \A k \in DOMAIN outcome :
           (/\ Matched(k)
            /\ \A g \in Range(c.TagOrder[k].PatchTypes) :
                   MissingGroup(g) \/ MissingScopeOf(g)) =>
               /\ (SeverityOf(PrefixAt(k)) # <<>> /\ ~c.TagOrder[k].Optional) =>
                      /\ outcome[k] = "failed"
                      /\ err = InvalidTagError(c.TagOrder[k].PatchTypes)
               /\ (/\ SeverityOf(PrefixAt(k)) = <<>>
                   /\ \E g \in Range(c.TagOrder[k].PatchTypes) :
                          MissingScopeOf(g) /\ InVocabulary(g, TagOf(PrefixAt(k)))) =>
                      outcome[k] = "consumed"
    /\ Returned => (err = NoError \/ err.wraps \in {ErrTagScope, ErrSubjectMessageFormat})

\* "BUG/MEDIUM: ..." under the policy whose position names a missing group and a
\* group with a missing scope: the invalid tag error
C20_Witness ==
    /\ Returned
    /\ c = danglingConf
    /\ candidates = <<BUG \o Slash \o MEDIUM \o ColonSpace>>
    /\ outcome = <<"failed">>
    /\ err.wraps = ErrTagScope

(***************************************************************************)
(* C21: whenever CheckSubject returns nil, what is left of the subject is  *)
(* pure ASCII, does not start with a well-formed tag prefix, is its words  *)
(* joined by single spaces, has 3..15 words and 15..100 characters; what   *)
(* was cut off is the prefixes consumed at the positions, and each of them *)
(* was accepted by some group of the position that consumed it.            *)
(***************************************************************************)
ConsumedAt == {k \in DOMAIN outcome : outcome[k] = "consumed"}

C21_AcceptedMeansChecked ==
    Accepted =>
        /\ ~OutsideASCII(rawSubject)
        /\ ~WellFormedPrefix(rawSubject)
        /\ GoodText(rawSubject)
        /\ Len(outcome) = Len(c.TagOrder)
        /\ subject = Stripped(Len(outcome)) \o rawSubject
        /\ \A k \in ConsumedAt :
               \E j \in DOMAIN c.TagOrder[k].PatchTypes : AcceptsAt(k, j)

\* an accepted subject of which two prefixes were consumed, one at each position
C21_Witness ==
    /\ Accepted
    /\ Cardinality(ConsumedAt) = 2
    /\ Len(rawSubject) < Len(subject)

(***************************************************************************)
(* C22: at every step of CheckSubject the remainder is a suffix of the     *)
(* subject and never grows; each position cuts off nothing or the one      *)
(* well-formed prefix that starts the remainder it finds, so what has been *)
(* cut off is the consumed prefixes in the order of the positions, at most *)
(* one per position and at most len(TagOrder) in all.                      *)
(***************************************************************************)
IsSuffix(r, s) == Len(r) <= Len(s) /\ Drop(s, Len(s) - Len(r)) = r

\* p is tag, optional slash and severity, colon and space, in upper case letters
PrefixShaped(p) ==
    \E t \in 1..Len(p) :
        /\ \A i \in 1..t : p[i] >= 65 /\ p[i] <= 90
        /\ \/ Drop(p, t) = <<58, 32>>
           \/ /\ Len(p) >= t + 4
              /\ p[t + 1] = 47
              /\ \A i \in (t + 2)..(Len(p) - 2) : p[i] >= 65 /\ p[i] <= 90
              /\ Drop(p, Len(p) - 2) = <<58, 32>>

InCheckSubject == pc \in {"ascii", "tags", "text", "return"}

C22_RemainderIsSuffix ==
    InCheckSubject =>
        /\ IsSuffix(rawSubject, subject)
        /\ Len(outcome) <= Len(c.TagOrder)
        /\ Cardinality(ConsumedAt) <= Len(c.TagOrder)
        /\ subject = Stripped(Len(outcome)) \o rawSubject
        /\ \A k \in DOMAIN outcome :
               LET found == Drop(subject, Len(Stripped(k - 1)))
                   cut == Len(Stripped(k)) - Len(Stripped(k - 1))
               IN  /\ outcome[k] # "consumed" => cut = 0
                   /\ outcome[k] = "consumed" =>
                          /\ cut > 0
                          /\ PrefixShaped(SubSeq(found, 1, cut))
                          /\ \A n \in 1..(cut - 1) : ~PrefixShaped(SubSeq(found, 1, n))

C22_RemainderNeverGrows ==
    [](C22_RemainderIsSuffix)
    /\ [][(InCheckSubject /\ InCheckSubject') =>
              /\ Len(rawSubject') <= Len(rawSubject)
              /\ IsSuffix(rawSubject', rawSubject)]_vars

\* two positions, two prefixes consumed in the order of the positions, and a
\* third prefix left at the start of the remainder
C22_Witness ==
    /\ Returned
    /\ Cardinality(ConsumedAt) = 2
    /\ WellFormedPrefix(rawSubject)
    /\ Len(rawSubject) < Len(subject)

====
